---- MODULE Spec2Model ----
(***************************************************************************)
(* Model of src/amazon_scraper.py: the AmazonScraper class.                *)
(*                                                                         *)
(*   - text is a sequence of one-character strings, so that strip(),       *)
(*     re.sub() and re.search() are computed character by character;       *)
(*   - an Optional value is a tuple of length at most one: None is <<>>,   *)
(*     a present value v is <<v>>;                                         *)
(*   - a parsed document node (a BeautifulSoup Tag) is the record of what  *)
(*     select_one() and find() return on it for the selectors the code     *)
(*     uses;                                                               *)
(*   - a URL is the record of the six components urlparse() splits it in;  *)
(*     its query string is a sequence of tokens ("&", "=", names, values). *)
(***************************************************************************)
EXTENDS Integers, Sequences, FiniteSets, TLC

VARIABLES
    keywords,       \* search_products: the keywords argument
    max_pages,      \* search_products: the max_pages argument
    max_products,   \* search_products: the max_products argument
    affiliate_id,   \* self.affiliate_id (Optional string)
    all_products,   \* search_products: the accumulated result list
    kw,             \* index in keywords of the current keyword (0 before the first)
    page,           \* the inner loop's page counter (0 before the first page)
    products,       \* containers of the current page not yet visited by the for loop
    next_page,      \* whether the current soup holds the "Go to next page" link
    pc,             \* position in search_products
    product_data,   \* search_products: the local product_data: None while unbound in the
                    \* current page's loop, else Some(what _extract_product_data returned)
    fetches,        \* history: outcomes of the fetches of the current keyword
    offered,        \* history: containers yielding a titled record on the pages fetched,
                    \* counted up to max_products
    delays,         \* history: inter-page delays taken for the current keyword
    arg,            \* argument of the function under test (function specifications)
    ret,            \* its returned value (function specifications)
    use_selenium,   \* self.use_selenium
    driver,         \* self.driver (Optional browser session)
    last_request_time, \* self.last_request_time, in seconds
    now,            \* time.time(), in seconds
    calls           \* history: the calls made on the browser and on the HTTP session

vars == <<keywords, max_pages, max_products, affiliate_id, all_products, kw, page,
          products, next_page, pc, product_data, fetches, offered, delays, arg, ret,
          use_selenium, driver, last_request_time, now, calls>>

gatewayVars == <<use_selenium, driver, last_request_time, now, calls>>

searchVars == <<keywords, max_pages, max_products, all_products, kw, page,
                products, next_page, pc, product_data, fetches, offered, delays>>

-----------------------------------------------------------------------------
(* Optional values and Python truthiness *)

None == <<>>

Some(v) == <<v>>

Val(o) == o[1]

\* bool(x) of an Optional text: None and "" are falsy
TruthyText(o) == IF o = None THEN FALSE ELSE Val(o) # <<>>

-----------------------------------------------------------------------------
(* The request gateway: rate limiter, static and rendered backend *)

\* self.min_delay, in seconds
min_delay == 1

\* self.max_delay, in seconds
max_delay == 3

\* the argument of time.sleep() in _selenium_get_page, in seconds
settle_delay == 2

\* time.time() counts from the epoch: when the scraper is built the clock is at least
\* min_delay past 0, the initial last_request_time
StartTime == min_delay

\* the state __init__ leaves with use_selenium=False, before any request
GatewayIdle ==
    /\ use_selenium = FALSE
    /\ driver = None
    /\ last_request_time = 0
    /\ now = StartTime
    /\ calls = <<>>

-----------------------------------------------------------------------------
(* Text *)

Whitespace == {" "}

Digits == {"0", "1", "2", "3", "4", "5", "6", "7", "8", "9"}

DigitVal(c) ==
    CASE c = "0" -> 0 [] c = "1" -> 1 [] c = "2" -> 2 [] c = "3" -> 3 [] c = "4" -> 4
      [] c = "5" -> 5 [] c = "6" -> 6 [] c = "7" -> 7 [] c = "8" -> 8 [] c = "9" -> 9

RECURSIVE lstrip(_)
lstrip(s) == IF s # <<>> /\ Head(s) \in Whitespace THEN lstrip(Tail(s)) ELSE s

RECURSIVE rstrip(_)
rstrip(s) ==
    IF s # <<>> /\ s[Len(s)] \in Whitespace THEN rstrip(SubSeq(s, 1, Len(s) - 1)) ELSE s

\* str.strip()
strip(s) == rstrip(lstrip(s))

\* the longest prefix of s made of digits: \d* at the start of s
RECURSIVE TakeDigits(_)
TakeDigits(s) ==
    IF s # <<>> /\ Head(s) \in Digits THEN <<Head(s)>> \o TakeDigits(Tail(s)) ELSE <<>>

Drop(s, n) == SubSeq(s, n + 1, Len(s))

RECURSIVE ToInt(_)
ToInt(ds) == IF ds = <<>> THEN 0 ELSE 10 * ToInt(SubSeq(ds, 1, Len(ds) - 1)) + DigitVal(ds[Len(ds)])

RECURSIVE Pow10(_)
Pow10(n) == IF n = 0 THEN 1 ELSE 10 * Pow10(n - 1)

RECURSIVE DropTrailingZeros(_)
DropTrailingZeros(ds) ==
    IF ds # <<>> /\ ds[Len(ds)] = "0" THEN DropTrailingZeros(SubSeq(ds, 1, Len(ds) - 1)) ELSE ds

\* float(token) for a token matched by \d+\.?\d* : the exact decimal num / 10^scale
float(tok) ==
    LET whole == TakeDigits(tok)
        frac  == IF Len(tok) > Len(whole) THEN DropTrailingZeros(Drop(tok, Len(whole) + 1))
                 ELSE <<>>
    IN  [num |-> ToInt(whole \o frac), scale |-> Len(frac)]

-----------------------------------------------------------------------------
(* URLs: urllib.parse *)

\* urlparse(url): the six components; "" is the URL with every component empty
EmptyUrl == [scheme |-> "", netloc |-> "", path |-> <<>>, params |-> "",
             query |-> <<>>, fragment |-> ""]

\* str.split(sep) on a token sequence
RECURSIVE split(_, _)
split(s, sep) ==
    IF \A i \in 1..Len(s) : s[i] # sep THEN <<s>>
    ELSE LET i == CHOOSE i \in 1..Len(s) : s[i] = sep /\ \A j \in 1..(i - 1) : s[j] # sep
         IN  <<SubSeq(s, 1, i - 1)>> \o split(Drop(s, i), sep)

\* a Python dict of lists, in insertion order: a sequence of [k, vs]
KeyIndex(d, k) ==
    IF \E i \in 1..Len(d) : d[i].k = k THEN CHOOSE i \in 1..Len(d) : d[i].k = k ELSE 0

\* parsed_result[name].append(value) / parsed_result[name] = [value]
DictAppend(d, k, v) ==
    IF KeyIndex(d, k) = 0 THEN Append(d, [k |-> k, vs |-> <<v>>])
    ELSE [d EXCEPT ![KeyIndex(d, k)].vs = Append(@, v)]

\* d[k] = vs
DictSet(d, k, vs) ==
    IF KeyIndex(d, k) = 0 THEN Append(d, [k |-> k, vs |-> vs])
    ELSE [d EXCEPT ![KeyIndex(d, k)].vs = vs]

\* parse_qs(qs): split on "&", each piece on its first "="; a piece without "=" or
\* with a blank value is skipped (strict_parsing and keep_blank_values are False)
RECURSIVE parse_pieces(_, _)
parse_pieces(pieces, d) ==
    IF pieces = <<>> THEN d
    ELSE LET nv == Head(pieces)
             has_eq == \E i \in 1..Len(nv) : nv[i] = "="
             i == CHOOSE i \in 1..Len(nv) : nv[i] = "=" /\ \A j \in 1..(i - 1) : nv[j] # "="
         IN  IF has_eq /\ Drop(nv, i) # <<>>
             THEN parse_pieces(Tail(pieces), DictAppend(d, SubSeq(nv, 1, i - 1), Drop(nv, i)))
             ELSE parse_pieces(Tail(pieces), d)

parse_qs(qs) == IF qs = <<>> THEN <<>> ELSE parse_pieces(split(qs, "&"), <<>>)

\* quote_plus(): "=" inside a name or a value is percent-encoded
RECURSIVE quote_plus(_)
quote_plus(s) ==
    IF s = <<>> THEN <<>>
    ELSE <<IF Head(s) = "=" THEN "%3D" ELSE Head(s)>> \o quote_plus(Tail(s))

RECURSIVE encode_values(_, _)
encode_values(k, vs) ==
    IF vs = <<>> THEN <<>>
    ELSE <<quote_plus(k) \o <<"=">> \o quote_plus(Head(vs))>> \o encode_values(k, Tail(vs))

RECURSIVE encode_items(_)
encode_items(d) ==
    IF d = <<>> THEN <<>>
    ELSE encode_values(Head(d).k, Head(d).vs) \o encode_items(Tail(d))

\* '&'.join(l)
RECURSIVE join(_)
join(l) ==
    IF l = <<>> THEN <<>>
    ELSE IF Len(l) = 1 THEN Head(l)
    ELSE Head(l) \o <<"&">> \o join(Tail(l))

\* urlencode(query, doseq=True)
urlencode(d) == join(encode_items(d))

\* not url / not self.affiliate_id
FalsyUrl(url) == IF url = None THEN TRUE ELSE Val(url) = EmptyUrl

FalsyStr(o) == IF o = None THEN TRUE ELSE Val(o) = ""

\* faulty variant: the tag is appended to the values parse_qs collected under 'tag'
add_affiliate_tag_append(url) ==
    IF FalsyUrl(url) \/ FalsyStr(affiliate_id) THEN url
    ELSE LET parsed_url == Val(url)
             query_params == DictAppend(parse_qs(parsed_url.query), <<"tag">>,
                                        <<Val(affiliate_id)>>)
         IN  Some([parsed_url EXCEPT !.query = urlencode(query_params)])

\* faulty variant: the tag's absence is not tested
add_affiliate_tag_unguarded(url) ==
    IF FalsyUrl(url) THEN url
    ELSE LET parsed_url == Val(url)
             query_params == DictSet(parse_qs(parsed_url.query), <<"tag">>,
                                     << <<IF affiliate_id = None THEN "None"
                                          ELSE Val(affiliate_id)>> >>)
         IN  Some([parsed_url EXCEPT !.query = urlencode(query_params)])

\* AmazonScraper._add_affiliate_tag
_add_affiliate_tag(url) ==
    IF FalsyUrl(url) \/ FalsyStr(affiliate_id) THEN url
    ELSE LET parsed_url == Val(url)
             query_params == DictSet(parse_qs(parsed_url.query), <<"tag">>,
                                     << <<Val(affiliate_id)>> >>)
         IN  Some([parsed_url EXCEPT !.query = urlencode(query_params)])

-----------------------------------------------------------------------------
(* Parsed document nodes *)

\* self.base_url
base_url == [scheme |-> "https", netloc |-> "www.amazon.com"]

\* urljoin(self.base_url, href) raises ValueError on a malformed href ("http://[")
urljoin_raises(href) == href.malformed

\* urljoin(self.base_url, href): a relative href takes the base's scheme and host
urljoin(href) ==
    Some([scheme   |-> IF href.netloc = "" THEN base_url.scheme ELSE href.scheme,
          netloc   |-> IF href.netloc = "" THEN base_url.netloc ELSE href.netloc,
          path     |-> href.path,
          params   |-> "",
          query    |-> href.query,
          fragment |-> href.fragment])

title_selectors ==
    <<"h2.a-size-mini a.a-link-normal",
      "h2.a-size-medium a.a-link-normal",
      "span.a-size-medium a.a-link-normal",
      "span.a-size-base-plus a.a-link-normal",
      "a.a-link-normal h2",
      "a.a-link-normal span.a-text-normal">>

price_selectors ==
    <<"span.a-price .a-offscreen",
      "span.a-price-whole",
      "span.a-color-base",
      ".a-price .a-offscreen">>

Range(f) == {f[i] : i \in DOMAIN f}

\* every selector the code hands to select_one(), every query it hands to find()
Selectors ==
    Range(title_selectors) \cup Range(price_selectors)
      \cup {"i.a-icon-star-small span.a-icon-alt", "span.a-size-small span.a-link-normal"}

Finds == {"a.a-link-normal", "span.a-icon-alt", "span.a-size-base", "img.s-image", "img"}

\* a Tag: its name, get_text(), and its href and src attributes (None: not in attrs)
Tag(name, text, href, src) == [name |-> name, text |-> text, href |-> href, src |-> src]

\* the container in which no selector and no find() matches
\* (data_asin: the data-asin attribute the container or a descendant carries)
NoMatch ==
    [select_one |-> [sel \in Selectors |-> None], find |-> [q \in Finds |-> None],
     data_asin |-> None]

\* faulty variant: an element whose text is empty after trimming does not end the loop
RECURSIVE title_loop_nonempty(_, _)
title_loop_nonempty(product_element, i) ==
    IF i > Len(title_selectors) THEN None
    ELSE IF product_element.select_one[title_selectors[i]] = None
         THEN title_loop_nonempty(product_element, i + 1)
         ELSE IF strip(Val(product_element.select_one[title_selectors[i]]).text) # <<>>
              THEN product_element.select_one[title_selectors[i]]
              ELSE title_loop_nonempty(product_element, i + 1)

\* for selector in title_selectors: title_elem = select_one(selector); if title_elem: break
\* (a Tag is truthy whatever its text: bs4's Tag.__bool__ returns True)
RECURSIVE title_loop(_, _)
title_loop(product_element, i) ==
    IF i > Len(title_selectors) THEN None
    ELSE IF product_element.select_one[title_selectors[i]] # None
         THEN product_element.select_one[title_selectors[i]]
         ELSE title_loop(product_element, i + 1)

title_elem_of(product_element) ==
    IF title_loop(product_element, 1) # None THEN title_loop(product_element, 1)
    ELSE product_element.find["a.a-link-normal"]

link_elem_of(product_element) ==
    LET title_elem == title_elem_of(product_element)
    IN  IF title_elem # None /\ Val(title_elem).name = "a" THEN title_elem
        ELSE product_element.find["a.a-link-normal"]

\* re.sub(r'[^\d.]', '', price_text)
IsPriceChar(c) == c \in Digits \cup {"."}

\* faulty variant: only the first character that is no digit and no point is removed
RECURSIVE re_sub_first(_)
re_sub_first(s) ==
    IF s = <<>> THEN <<>>
    ELSE IF ~IsPriceChar(Head(s)) THEN Tail(s)
    ELSE <<Head(s)>> \o re_sub_first(Tail(s))

re_sub_price(s) == SelectSeq(s, IsPriceChar)

\* price_text = price_elem.get_text().strip(); price_text = re.sub(...)
normalize_price(text) == re_sub_price(strip(text))

\* for selector in price_selectors: ... if price_text: price = price_text; break
RECURSIVE price_loop(_, _)
price_loop(product_element, i) ==
    IF i > Len(price_selectors) THEN None
    ELSE LET price_elem == product_element.select_one[price_selectors[i]]
         IN  IF price_elem # None /\ normalize_price(Val(price_elem).text) # <<>>
             THEN Some(normalize_price(Val(price_elem).text))
             ELSE price_loop(product_element, i + 1)

\* the match of \d+\.?\d* at the start of s, which starts with a digit
number_token(s) ==
    LET whole == TakeDigits(s)
        rest  == Drop(s, Len(whole))
    IN  IF rest # <<>> /\ Head(rest) = "." THEN whole \o <<".">> \o TakeDigits(Tail(rest))
        ELSE whole

\* re.search(r'(\d+\.?\d*)', rating_text).group(1), None without a match
RECURSIVE re_search_rating(_)
re_search_rating(s) ==
    IF s = <<>> THEN None
    ELSE IF Head(s) \in Digits THEN Some(number_token(s))
    ELSE re_search_rating(Tail(s))

\* rating_elem = find(...) or select_one(...); float(rating_match.group(1))
rating_of(product_element) ==
    LET first == product_element.find["span.a-icon-alt"]
        rating_elem == IF first # None THEN first
                       ELSE product_element.select_one["i.a-icon-star-small span.a-icon-alt"]
        rating_match == IF rating_elem = None THEN None
                        ELSE re_search_rating(strip(Val(rating_elem).text))
    IN  IF rating_match # None THEN Some(float(Val(rating_match))) ELSE None

\* the match of \d+(?:,\d+)* at the start of s, which starts with a digit
RECURSIVE count_token(_)
count_token(s) ==
    LET run  == TakeDigits(s)
        rest == Drop(s, Len(run))
    IN  IF Len(rest) >= 2 /\ rest[1] = "," /\ rest[2] \in Digits
        THEN run \o <<",">> \o count_token(Tail(rest))
        ELSE run

\* re.search(r'\(?(\d+(?:,\d+)*)\)?', reviews_text).group(1), None without a match
RECURSIVE re_search_reviews(_)
re_search_reviews(s) ==
    IF s = <<>> THEN None
    ELSE IF Head(s) \in Digits THEN Some(count_token(s))
    ELSE re_search_reviews(Tail(s))

IsNotComma(c) == c # ","

\* int(reviews_match.group(1).replace(',', ''))
reviews_count_of(product_element) ==
    LET first == product_element.find["span.a-size-base"]
        reviews_elem == IF first # None THEN first
                        ELSE product_element.select_one["span.a-size-small span.a-link-normal"]
        reviews_match == IF reviews_elem = None THEN None
                         ELSE re_search_reviews(strip(Val(reviews_elem).text))
    IN  IF reviews_match # None THEN Some(ToInt(SelectSeq(Val(reviews_match), IsNotComma)))
        ELSE None

\* img_elem = find('img', class_='s-image') or find('img'); img_elem['src']
image_url_of(product_element) ==
    LET first == product_element.find["img.s-image"]
        img_elem == IF first # None THEN first ELSE product_element.find["img"]
    IN  IF img_elem # None THEN Val(img_elem).src ELSE None

\* the characters of [A-Z0-9]
AsinChars ==
    Digits \cup {"A", "B", "C", "D", "E", "F", "G", "H", "I", "J", "K", "L", "M", "N",
                 "O", "P", "Q", "R", "S", "T", "U", "V", "W", "X", "Y", "Z"}

\* the length {10} of the group in r'/dp/([A-Z0-9]{10})'
AsinLen == 10

\* whether /dp/([A-Z0-9]{10}) matches at segment i of the path
AsinAt(path, i) ==
    /\ path[i] = <<"d", "p">>
    /\ i + 1 <= Len(path)
    /\ Len(path[i + 1]) >= AsinLen
    /\ \A j \in 1..AsinLen : path[i + 1][j] \in AsinChars

\* faulty variant: the group is the whole path segment that follows /dp/
re_search_asin_segment(url) ==
    IF \E i \in 1..Len(url.path) : AsinAt(url.path, i)
    THEN LET i == CHOOSE i \in 1..Len(url.path) :
                    AsinAt(url.path, i) /\ \A j \in 1..(i - 1) : ~AsinAt(url.path, j)
         IN  Some(url.path[i + 1])
    ELSE None

\* re.search(r'/dp/([A-Z0-9]{10})', url).group(1), None without a match
re_search_asin(url) ==
    IF \E i \in 1..Len(url.path) : AsinAt(url.path, i)
    THEN LET i == CHOOSE i \in 1..Len(url.path) :
                    AsinAt(url.path, i) /\ \A j \in 1..(i - 1) : ~AsinAt(url.path, j)
         IN  Some(SubSeq(url.path[i + 1], 1, AsinLen))
    ELSE None

\* faulty variant: without a url the asin is read from the data attribute
asin_of_data_attribute(product_element, url) ==
    IF ~FalsyUrl(url) THEN re_search_asin(Val(url)) ELSE product_element.data_asin

\* if product_data['url']: the group of the match, or None; else: None
asin_of(product_element, url) ==
    IF ~FalsyUrl(url) THEN re_search_asin(Val(url)) ELSE None

\* the body of the try block of _extract_product_data
product_data_of(product_element) ==
    LET title_elem == title_elem_of(product_element)
        link_elem  == link_elem_of(product_element)
        url == IF link_elem # None /\ Val(link_elem).href # None
               THEN _add_affiliate_tag(urljoin(Val(Val(link_elem).href)))
               ELSE None
    IN  [title         |-> IF title_elem # None THEN Some(strip(Val(title_elem).text))
                           ELSE None,
         url           |-> url,
         price         |-> price_loop(product_element, 1),
         rating        |-> rating_of(product_element),
         reviews_count |-> reviews_count_of(product_element),
         image_url     |-> image_url_of(product_element),
         asin          |-> asin_of(product_element, url)]

\* whether the try block raises: urljoin() on a malformed href is the statement that can
extraction_raises(product_element) ==
    LET link_elem == link_elem_of(product_element)
    IN  /\ link_elem # None
        /\ Val(link_elem).href # None
        /\ urljoin_raises(Val(Val(link_elem).href))

\* faulty variant: a container without a title yields no dictionary
extract_product_data_titled_only(product_element) ==
    IF extraction_raises(product_element) THEN None
    ELSE IF ~TruthyText(product_data_of(product_element).title) THEN None
    ELSE Some(product_data_of(product_element))

\* AmazonScraper._extract_product_data: the dictionary, or None when the try block raised
_extract_product_data(product_element) ==
    IF extraction_raises(product_element) THEN None
    ELSE Some(product_data_of(product_element))

-----------------------------------------------------------------------------
(* Inputs of search_products *)

MaxPages == 2

MaxProducts == 2

MaxContainers == 2

\* the sequences over S of length at most n
SeqsUpTo(S, n) == UNION {[1..m -> S] : m \in 0..n}

\* the keyword lists tried: none, one, two different, the same keyword twice
KeywordLists == {<<>>, <<"laptop">>, <<"laptop", "mouse">>, <<"mouse", "mouse">>}

\* the default of __init__'s affiliate_id
DefaultAffiliateId == "cyberheroes-20"

Href(path) == [malformed |-> FALSE, scheme |-> "", netloc |-> "", path |-> path,
               query |-> <<>>, fragment |-> ""]

\* an href on which urljoin() raises ValueError, such as "http://["
MalformedHref == [malformed |-> TRUE, scheme |-> "http", netloc |-> "[", path |-> <<>>,
                  query |-> <<>>, fragment |-> ""]

AsinA == <<"B", "0", "8", "N", "5", "W", "R", "W", "N", "W">>

AsinB == <<"B", "0", "0", "0", "0", "0", "0", "0", "0", "0">>

\* ten alphanumeric characters, one of them a lower-case letter
AsinLower == <<"b", "0", "8", "N", "5", "W", "R", "W", "N", "W">>

\* a result container: the title link matched by the first title selector, a price
Product(title, href, price) ==
    [NoMatch EXCEPT
        !.select_one["h2.a-size-mini a.a-link-normal"] = Some(Tag("a", title, href, None)),
        !.find["a.a-link-normal"] = Some(Tag("a", title, href, None)),
        !.select_one["span.a-price .a-offscreen"] = Some(Tag("span", price, None, None))]

ProductA == Product(<<" ", "A", " ">>, Some(Href(<< <<"d", "p">>, AsinA >>)), <<"$", "9">>)

ProductB == Product(<<"B">>, Some(Href(<< <<"d", "p">>, AsinB >>)), <<"$", "1", ".", "5">>)

\* the title link holds only whitespace; the link and the price are there
BlankTitle == Product(<<" ">>, Some(Href(<< <<"d", "p">>, AsinA >>)), <<"$", "9">>)

\* a titled container on whose link urljoin() raises
BadLink == Product(<<"A">>, Some(MalformedHref), <<"$", "9">>)

SearchContainers == {ProductA, ProductB, BlankTitle, BadLink}

\* a page as BeautifulSoup sees it: the containers found by the primary marker
\* (data-component-type), those found by the fallback marker (s-result-item), the
\* "Go to next page" link; blank: the response body is the empty string
Pages ==
    {[blank |-> FALSE, primary |-> cs, fallback |-> <<>>, next |-> n] :
        cs \in SeqsUpTo(SearchContainers, MaxContainers), n \in BOOLEAN}
    \cup
    {[blank |-> FALSE, primary |-> <<>>, fallback |-> cs, next |-> n] :
        cs \in SeqsUpTo(SearchContainers, MaxContainers), n \in BOOLEAN}
    \cup
    {[blank |-> TRUE, primary |-> <<>>, fallback |-> <<>>, next |-> FALSE]}

\* what _make_request / _selenium_get_page return: None, or the markup
Responses == {None} \cup {Some(p) : p \in Pages}

-----------------------------------------------------------------------------
(* search_products *)

\* not html
NoMarkup(html) == IF html = None THEN TRUE ELSE Val(html).blank

\* faulty variant: the title is not tested
RetainedUntitled(pd) == pd # None

\* product_data and product_data['title']
Retained(pd) == IF pd = None THEN FALSE ELSE TruthyText(Val(pd).title)

\* faulty variant: every record is tagged with the first keyword of the list
TaggedFirst(pd, keyword) ==
    [title |-> pd.title, url |-> pd.url, price |-> pd.price, rating |-> pd.rating,
     reviews_count |-> pd.reviews_count, image_url |-> pd.image_url, asin |-> pd.asin,
     search_keyword |-> keywords[1]]

\* product_data['search_keyword'] = keyword
Tagged(pd, keyword) ==
    [title |-> pd.title, url |-> pd.url, price |-> pd.price, rating |-> pd.rating,
     reviews_count |-> pd.reviews_count, image_url |-> pd.image_url, asin |-> pd.asin,
     search_keyword |-> keyword]

\* the digit character of d in 0..9
DigitChar(d) == CHOOSE c \in Digits : DigitVal(c) = d

\* str(n) of a natural n: its decimal digits
RECURSIVE str(_)
str(n) == IF n < 10 THEN <<DigitChar(n)>> ELSE str(n \div 10) \o <<DigitChar(n % 10)>>

\* faulty variant: every request carries the reference tag of page 1
params_first_ref(keyword, p) ==
    [k |-> keyword, page |-> p, ref |-> <<"s", "r", "_", "p", "g", "_">> \o str(1)]

\* params = {'k': keyword, 'page': page, 'ref': f'sr_pg_{page}'}
params_of(keyword, p) ==
    [k |-> keyword, page |-> p, ref |-> <<"s", "r", "_", "p", "g", "_">> \o str(p)]

\* faulty variant: the cap is tested with > instead of >=
CapReachedLate == Len(all_products) > max_products

\* len(all_products) >= max_products
CapReached == Len(all_products) >= max_products

\* soup.find_all(primary marker), and soup.find_all(fallback marker) if that is empty
find_containers(soup) == IF soup.primary # <<>> THEN soup.primary ELSE soup.fallback

\* faulty variant: a failed fetch is tried again
AfterFailedFetchRetry == "request"

\* faulty variant: `break` instead of `continue`
AfterFailedFetchBreak == "after_pages"

\* where `continue` leads after a failed fetch: the head of the page loop
AfterFailedFetch == "for_page"

\* faulty variant: a page without containers ends the keyword's loop as well
NoNextPageOrEmpty == ~next_page \/ fetches[Len(fetches)].empty

\* faulty variant: the next-page link is not looked for
NoNextPageIgnored == FALSE

\* not next_page
NoNextPage == ~next_page

\* faulty variant: no except clause
exception_escapes_uncaught(product_element) == TRUE

\* whether an exception raised in the try block leaves _extract_product_data:
\* `except Exception` catches it
exception_escapes(product_element) == FALSE

Min(a, b) == IF a <= b THEN a ELSE b

Max(a, b) == IF a >= b THEN a ELSE b

RECURSIVE CountRetained(_)
CountRetained(cs) ==
    IF cs = <<>> THEN 0
    ELSE (IF Retained(_extract_product_data(Head(cs))) THEN 1 ELSE 0) + CountRetained(Tail(cs))

SearchInit ==
    /\ keywords \in KeywordLists
    /\ max_pages \in (0 - 1)..MaxPages
    /\ max_products \in (0 - 1)..MaxProducts
    /\ affiliate_id = Some(DefaultAffiliateId)
    /\ all_products = <<>>
    /\ kw = 0
    /\ page = 0
    /\ products = <<>>
    /\ next_page = FALSE
    /\ pc = "for_keyword"
    /\ product_data = None
    /\ fetches = <<>>
    /\ offered = 0
    /\ delays = 0
    /\ arg = None
    /\ ret = None
    /\ GatewayIdle

\* for keyword in keywords: the next keyword
NextKeyword ==
    /\ pc = "for_keyword"
    /\ kw < Len(keywords)
    /\ kw' = kw + 1
    /\ page' = 0
    /\ fetches' = <<>>
    /\ delays' = 0
    /\ pc' = "for_page"
    /\ UNCHANGED <<keywords, max_pages, max_products, affiliate_id, all_products,
                   products, next_page, product_data, offered, arg, ret,
                   gatewayVars>>

\* for keyword in keywords: exhausted; return all_products
KeywordsExhausted ==
    /\ pc = "for_keyword"
    /\ kw >= Len(keywords)
    /\ pc' = "done"
    /\ UNCHANGED <<keywords, max_pages, max_products, affiliate_id, all_products, kw,
                   page, products, next_page, product_data, fetches, offered, arg, ret,
                   delays, gatewayVars>>

\* for page in range(1, max_pages + 1): exhausted
PagesExhausted ==
    /\ pc = "for_page"
    /\ page + 1 > max_pages
    /\ pc' = "after_pages"
    /\ UNCHANGED <<keywords, max_pages, max_products, affiliate_id, all_products, kw,
                   page, products, next_page, product_data, fetches, offered, arg, ret,
                   delays, gatewayVars>>

\* for page in range(1, max_pages + 1): the next page;
\* if len(all_products) >= max_products: break
NextPage ==
    /\ pc = "for_page"
    /\ page + 1 <= max_pages
    /\ page' = page + 1
    /\ pc' = IF CapReached THEN "after_pages" ELSE "request"
    /\ UNCHANGED <<keywords, max_pages, max_products, affiliate_id, all_products, kw,
                   products, next_page, product_data, fetches, offered, arg, ret,
                   delays, gatewayVars>>

\* html = self._make_request(...) / self._selenium_get_page(...); if not html: continue
RequestFailed ==
    /\ pc = "request"
    /\ \E html \in Responses :
          /\ NoMarkup(html)
          /\ fetches' = Append(fetches, [page |-> page, ok |-> FALSE, next |-> FALSE,
                                       empty |-> FALSE, delays |-> delays,
                                       params |-> params_of(keywords[kw], page)])
    /\ pc' = AfterFailedFetch
    /\ UNCHANGED <<keywords, max_pages, max_products, affiliate_id, all_products, kw,
                   page, products, next_page, product_data, offered, arg, ret,
                   delays, gatewayVars>>

\* html = ...; soup = BeautifulSoup(html); products = soup.find_all(...)
RequestSucceeded ==
    /\ pc = "request"
    /\ \E html \in Responses :
          /\ ~NoMarkup(html)
          /\ products' = find_containers(Val(html))
          /\ next_page' = Val(html).next
          /\ fetches' = Append(fetches, [page |-> page, ok |-> TRUE, next |-> Val(html).next,
                                       empty |-> find_containers(Val(html)) = <<>>,
                                       delays |-> delays,
                                       params |-> params_of(keywords[kw], page)])
          /\ offered' = Min(offered + CountRetained(find_containers(Val(html))),
                             Max(max_products, 0))
    /\ pc' = "extract"
    /\ UNCHANGED <<keywords, max_pages, max_products, affiliate_id, all_products, kw,
                   page, product_data, arg, ret,
                   delays, gatewayVars>>

\* for product in products: exhausted, or if len(all_products) >= max_products: break
ProductsDone ==
    /\ pc = "extract"
    /\ products = <<>> \/ CapReached
    /\ products' = <<>>
    /\ product_data' = None
    /\ pc' = "check_next"
    /\ UNCHANGED <<keywords, max_pages, max_products, affiliate_id, all_products, kw,
                   page, next_page, fetches, offered, arg, ret,
                   delays, gatewayVars>>

\* product_data = self._extract_product_data(product)
\* if product_data and product_data['title']: tag it with the keyword and append it
ExtractProduct ==
    /\ pc = "extract"
    /\ products # <<>>
    /\ ~CapReached
    /\ IF exception_escapes(Head(products)) /\ extraction_raises(Head(products))
       THEN /\ pc' = "raised"
            /\ UNCHANGED <<all_products, product_data>>
       ELSE /\ product_data' = Some(_extract_product_data(Head(products)))
            /\ all_products' =
                  IF Retained(_extract_product_data(Head(products)))
                  THEN Append(all_products,
                              Tagged(Val(_extract_product_data(Head(products))), keywords[kw]))
                  ELSE all_products
            /\ pc' = "extract"
    /\ products' = Tail(products)
    /\ UNCHANGED <<keywords, max_pages, max_products, affiliate_id, kw, page, next_page,
                   fetches, offered, arg, ret,
                   delays, gatewayVars>>

\* next_page = soup.find('a', {'aria-label': 'Go to next page'}); if not next_page: break
LastPage ==
    /\ pc = "check_next"
    /\ NoNextPage
    /\ pc' = "after_pages"
    /\ UNCHANGED <<keywords, max_pages, max_products, affiliate_id, all_products, kw,
                   page, products, next_page, product_data, fetches, offered, arg, ret,
                   delays, gatewayVars>>

\* time.sleep(random.uniform(1.0, 2.0)), then the next iteration of the page loop
PageDelay ==
    /\ pc = "check_next"
    /\ ~NoNextPage
    /\ delays' = delays + 1
    /\ pc' = "for_page"
    /\ UNCHANGED <<keywords, max_pages, max_products, affiliate_id, all_products, kw,
                   page, products, next_page, product_data, fetches, offered, arg, ret,
                   gatewayVars>>

\* after the page loop: if len(all_products) >= max_products: break, and return
CapBreak ==
    /\ pc = "after_pages"
    /\ CapReached
    /\ pc' = "done"
    /\ UNCHANGED <<keywords, max_pages, max_products, affiliate_id, all_products, kw,
                   page, products, next_page, product_data, fetches, offered, arg, ret,
                   delays, gatewayVars>>

\* after the page loop: the keyword loop goes on
KeywordDone ==
    /\ pc = "after_pages"
    /\ ~CapReached
    /\ pc' = "for_keyword"
    /\ UNCHANGED <<keywords, max_pages, max_products, affiliate_id, all_products, kw,
                   page, products, next_page, product_data, fetches, offered, arg, ret,
                   delays, gatewayVars>>

SearchNext ==
    \/ NextKeyword
    \/ KeywordsExhausted
    \/ PagesExhausted
    \/ NextPage
    \/ RequestFailed
    \/ RequestSucceeded
    \/ ExtractProduct
    \/ ProductsDone
    \/ LastPage
    \/ PageDelay
    \/ CapBreak
    \/ KeywordDone

Spec == SearchInit /\ [][SearchNext]_vars

-----------------------------------------------------------------------------
(* The functions on their own: _add_affiliate_tag, the price clean-up,      *)
(* _extract_product_data                                                   *)

\* no search is running
SearchIdle ==
    /\ keywords = <<>>
    /\ max_pages = 0
    /\ max_products = 0
    /\ all_products = <<>>
    /\ kw = 0
    /\ page = 0
    /\ products = <<>>
    /\ next_page = FALSE
    /\ pc = "idle"
    /\ product_data = None
    /\ fetches = <<>>
    /\ offered = 0
    /\ delays = 0
    /\ GatewayIdle

AffiliateIds == {None, Some(""), Some(DefaultAffiliateId), Some("tagX")}

MaxParams == 3

\* the pieces a query string is made of, between "&": an empty piece, a name without
\* "=", a blank value, tag parameters, another parameter, "=" in a value, an empty name
QueryPieces ==
    {<<>>, <<"k">>, <<"tag", "=">>, <<"tag", "=", "old">>, <<"tag", "=", DefaultAffiliateId>>,
     <<"tag", "=", "tagX">>, <<"k", "=", "v">>, <<"k", "=", "v", "=", "v">>, <<"=", "v">>}

Queries == {join(ps) : ps \in SeqsUpTo(QueryPieces, MaxParams)}

UrlInputs ==
    {None, Some(EmptyUrl)}
    \cup {Some([scheme |-> "https", netloc |-> "site", path |-> << <<"d", "p">>, AsinB >>,
                params |-> "", query |-> q, fragment |-> f]) :
            q \in Queries, f \in {"", "tag=old"}}

AffiliateInit ==
    /\ SearchIdle
    /\ affiliate_id \in AffiliateIds
    /\ arg \in UrlInputs
    /\ ret = None

\* a call of self._add_affiliate_tag(url)
AddAffiliateTag ==
    /\ ret = None
    /\ ret' = Some(_add_affiliate_tag(arg))
    /\ UNCHANGED <<searchVars, affiliate_id, arg, gatewayVars>>

AffiliateSpec == AffiliateInit /\ [][AddAffiliateTag]_vars

MaxPriceLen == 4

PriceAlphabet == {"$", "1", ".", ",", " "}

PriceInit ==
    /\ SearchIdle
    /\ affiliate_id = Some(DefaultAffiliateId)
    /\ arg \in SeqsUpTo(PriceAlphabet, MaxPriceLen)
    /\ ret = None

\* the clean-up of one matched price text
NormalizePrice ==
    /\ ret = None
    /\ ret' = Some(normalize_price(arg))
    /\ UNCHANGED <<searchVars, affiliate_id, arg, gatewayVars>>

\* the cleaned text is matched and cleaned again
NormalizeAgain ==
    /\ ret # None
    /\ arg # Val(ret)
    /\ arg' = Val(ret)
    /\ ret' = None
    /\ UNCHANGED <<searchVars, affiliate_id, gatewayVars>>

PriceNext == NormalizePrice \/ NormalizeAgain

PriceSpec == PriceInit /\ [][PriceNext]_vars

TitleTexts == {<<" ">>, <<" ", "A", " ">>}

\* the element a title selector matches: selectors 1 to 4 select the link, 5 the h2,
\* 6 the span
TitleTag(sel, text) ==
    IF sel = title_selectors[5] THEN Tag("h2", text, None, None)
    ELSE IF sel = title_selectors[6] THEN Tag("span", text, None, None)
    ELSE Tag("a", text, Some(Href(<< <<"d", "p">>, AsinA >>)), None)

OtherLink == Tag("a", <<"F">>, Some(Href(<< <<"d", "p">>, AsinB >>)), None)

TitleHits == [Range(title_selectors) -> {None} \cup {Some(t) : t \in TitleTexts}]

TitleContainer(f, fb) ==
    [NoMatch EXCEPT
        !.select_one = [sel \in Selectors |->
                          IF sel \in DOMAIN f /\ f[sel] # None
                          THEN Some(TitleTag(sel, Val(f[sel]))) ELSE None],
        !.find = [q \in Finds |-> IF q = "a.a-link-normal" THEN fb ELSE None]]

\* containers that differ in what the title selectors match; every title selector
\* matches inside an a.a-link-normal, so find() finds one whenever a selector matches
TitleFamily ==
    {TitleContainer(h[1], h[2]) :
        h \in {g \in TitleHits \X {None, Some(OtherLink), Some(Tag("a", <<" ">>, None, None))} :
                  g[2] # None \/ \A sel \in Range(title_selectors) : g[1][sel] = None}}

LinkPaths ==
    {<< <<"d", "p">>, AsinA >>, << <<"g", "p">>, AsinA >>, <<>>,
     << <<"d", "p">>, AsinLower >>,
     << <<"d", "p">>, AsinA \o <<"X">> >>,
     << <<"d", "p">>, <<"B", "0">>, <<"d", "p">>, AsinB >>}

Hrefs ==
    {None, Some(MalformedHref)}
    \cup {Some([Href(p) EXCEPT !.query = q, !.netloc = n, !.scheme = n]) :
            p \in LinkPaths, q \in {<<>>, <<"tag", "=", "old", "&", "k", "=", "v">>},
            n \in {"", "other"}}

\* containers that differ in the link: the title element is the link itself (first
\* selector) or an h2 inside it (fifth selector)
LinkFamily ==
    {[NoMatch EXCEPT
        !.select_one[title_selectors[1]] = Some(Tag("a", <<"A">>, h, None)),
        !.find["a.a-link-normal"] = Some(Tag("a", <<"A">>, h, None))] : h \in Hrefs}
    \cup
    {[NoMatch EXCEPT
        !.select_one[title_selectors[5]] = Some(Tag("h2", <<"A">>, None, None)),
        !.find["a.a-link-normal"] = Some(Tag("a", <<"A">>, h, None))] : h \in Hrefs}

PriceTexts == {<<" ", "$", " ">>, <<" ", "$", "1", ",", "0", ".", "5">>, <<"1", ".", "2", ".", "3">>}

PriceHits == [Range(price_selectors) -> {None} \cup {Some(t) : t \in PriceTexts}]

\* containers that differ in what the price selectors match
PriceFamily ==
    {[NoMatch EXCEPT
        !.select_one = [sel \in Selectors |->
                          IF sel \in DOMAIN f /\ f[sel] # None
                          THEN Some(Tag("span", Val(f[sel]), None, None)) ELSE None]] :
        f \in PriceHits}

MaxRatingLen == 3

RatingAlphabet == {"0", "1", "4", "5", ".", " ", "s"}

\* containers that differ in the text of span.a-icon-alt
RatingFamily ==
    {[NoMatch EXCEPT !.find["span.a-icon-alt"] = Some(Tag("span", t, None, None))] :
        t \in SeqsUpTo(RatingAlphabet, MaxRatingLen)}

ReviewsTexts ==
    {<<"(", "1", ",", "2", "3", "4", ")">>, <<"1", "2">>, <<"n", "o">>, <<"1", ",", "x">>}

\* containers that differ in the reviews text and in the image
OtherFamily ==
    {[NoMatch EXCEPT !.find["span.a-size-base"] = Some(Tag("span", t, None, None))] :
        t \in ReviewsTexts}
    \cup
    {[NoMatch EXCEPT !.select_one["span.a-size-small span.a-link-normal"] =
                        Some(Tag("span", t, None, None))] : t \in ReviewsTexts}
    \cup
    {[NoMatch EXCEPT !.find["img"] = Some(Tag("img", <<>>, None, src))] :
        src \in {None, Some("a.jpg")}}
    \cup
    {[NoMatch EXCEPT !.find["img.s-image"] = Some(Tag("img", <<>>, None, src)),
                     !.find["img"] = Some(Tag("img", <<>>, None, Some("b.jpg")))] :
        src \in {None, Some("a.jpg")}}

\* containers that carry the data-asin attribute: without a link, with a link that has
\* no href, with a detail-page link
AsinFamily ==
    {[NoMatch EXCEPT !.data_asin = Some(AsinB)],
     [NoMatch EXCEPT !.data_asin = Some(AsinB),
                     !.select_one[title_selectors[5]] = Some(Tag("h2", <<"A">>, None, None))],
     [NoMatch EXCEPT !.data_asin = Some(AsinB),
                     !.find["a.a-link-normal"] = Some(Tag("a", <<"A">>, None, None))],
     [Product(<<"A">>, Some(Href(<<>>)), <<"$", "9">>) EXCEPT !.data_asin = Some(AsinB)],
     [ProductA EXCEPT !.data_asin = Some(AsinB)]}

ExtractContainers ==
    TitleFamily \cup LinkFamily \cup PriceFamily \cup RatingFamily \cup OtherFamily
      \cup AsinFamily \cup SearchContainers

ExtractInit ==
    /\ SearchIdle
    /\ affiliate_id \in AffiliateIds
    /\ arg \in ExtractContainers
    /\ ret = None

\* a call of self._extract_product_data(product_element)
ExtractData ==
    /\ ret = None
    /\ ret' = Some(_extract_product_data(arg))
    /\ UNCHANGED <<searchVars, affiliate_id, arg, gatewayVars>>

ExtractSpec == ExtractInit /\ [][ExtractData]_vars

-----------------------------------------------------------------------------
(* search_products as a function of the responses: the same search run under *)
(* two caps                                                                  *)

\* what a request can be answered with: no markup; two titled containers and a next
\* link; fallback containers of which the first has a blank title, and no next link
ScriptResponses ==
    {None,
     Some([blank |-> FALSE, primary |-> <<ProductA, ProductB>>, fallback |-> <<>>,
           next |-> TRUE]),
     Some([blank |-> FALSE, primary |-> <<>>, fallback |-> <<BlankTitle, ProductB>>,
           next |-> FALSE])}

\* the keyword lists searched twice
ScriptKeywordLists == {<<>>, <<"laptop">>, <<"laptop", "mouse">>}

\* the responses of a search: one for the request of each keyword and page
Scripts(ks, pages) == [1..Len(ks) -> [1..pages -> ScriptResponses]]

\* faulty variant: a retained record is put in front of the list
all_products_prepend(all, pd) == <<pd>> \o all

\* all_products.append(product_data)
all_products_append(all, pd) == Append(all, pd)

\* for product in products: the cap test, the extraction, the title test, the tag, the
\* append; the value is all_products after the loop
RECURSIVE for_product(_, _, _, _)
for_product(cs, keyword, cap, all) ==
    IF cs = <<>> THEN all
    ELSE IF Len(all) >= cap THEN all
    ELSE for_product(Tail(cs), keyword, cap,
                     IF Retained(_extract_product_data(Head(cs)))
                     THEN all_products_append(all,
                              Tagged(Val(_extract_product_data(Head(cs))), keyword))
                     ELSE all)

\* for page in range(1, max_pages + 1), from page p on: the cap test, the request,
\* `continue` on no markup, the product loop, `break` without a next link
RECURSIVE for_page(_, _, _, _, _)
for_page(script, k, p, cap, all) ==
    IF p > max_pages THEN all
    ELSE IF Len(all) >= cap THEN all
    ELSE IF NoMarkup(script[k][p]) THEN for_page(script, k, p + 1, cap, all)
    ELSE IF ~Val(script[k][p]).next
         THEN for_product(find_containers(Val(script[k][p])), keywords[k], cap, all)
         ELSE for_page(script, k, p + 1, cap,
                       for_product(find_containers(Val(script[k][p])), keywords[k], cap,
                                   all))

\* for keyword in keywords, from the k-th on: the page loop, then the cap test
RECURSIVE for_keyword(_, _, _, _)
for_keyword(script, k, cap, all) ==
    IF k > Len(keywords) THEN all
    ELSE IF Len(for_page(script, k, 1, cap, all)) >= cap
         THEN for_page(script, k, 1, cap, all)
         ELSE for_keyword(script, k + 1, cap, for_page(script, k, 1, cap, all))

\* AmazonScraper.search_products with max_products = cap, the requests answered by
\* script: the list returned
search_products(script, cap) == for_keyword(script, 1, cap, <<>>)

TwiceInit ==
    /\ keywords \in ScriptKeywordLists
    /\ max_pages \in 0..MaxPages
    /\ max_products = 0
    /\ affiliate_id = Some(DefaultAffiliateId)
    /\ all_products = <<>>
    /\ kw = 0
    /\ page = 0
    /\ products = <<>>
    /\ next_page = FALSE
    /\ pc = "idle"
    /\ product_data = None
    /\ fetches = <<>>
    /\ offered = 0
    /\ delays = 0
    /\ \E n \in (0 - 1)..MaxProducts : \E m \in (n + 1)..(MaxProducts + 1) :
          \E script \in Scripts(keywords, max_pages) :
             arg = [script |-> script, n |-> n, m |-> m]
    /\ ret = None
    /\ GatewayIdle

\* two calls of search_products(keywords, max_pages, max_products) that differ in
\* max_products only
SearchTwice ==
    /\ ret = None
    /\ ret' = Some([n |-> search_products(arg.script, arg.n),
                    m |-> search_products(arg.script, arg.m)])
    /\ UNCHANGED <<searchVars, affiliate_id, arg, gatewayVars>>

TwiceSpec == TwiceInit /\ [][SearchTwice]_vars

-----------------------------------------------------------------------------
(* A run of main(): build the scraper, fetch pages through the gateway, close *)

MaxCalls == 3

MaxClock == 6

\* how _init_selenium() ends: without an exception, or with one raised by
\* webdriver.Chrome() or by driver.execute_script()
InitOutcomes == {"ok", "Chrome raises", "execute_script raises"}

\* the calls _init_selenium() makes on the browser
init_calls(outcome) ==
    IF outcome = "Chrome raises"
    THEN <<[op |-> "webdriver.Chrome", ok |-> FALSE, at |-> now]>>
    ELSE <<[op |-> "webdriver.Chrome", ok |-> TRUE, at |-> now],
           [op |-> "execute_script", ok |-> outcome = "ok", at |-> now]>>

IsFetch(call) == call.op \in {"session.get", "driver.get"}

\* the outbound page fetches among the calls
FetchCalls == SelectSeq(calls, IsFetch)

\* faulty variant: a rendered fetch that fails switches the rendered backend off
use_selenium_cleared == FALSE

\* self.use_selenium after the except branch of _selenium_get_page
use_selenium_after_failure == use_selenium

\* faulty variant: close() leaves the browser session open
quit_never(d) == FALSE

\* close(): if self.driver
quit_on_close(d) == d # None

GatewayInit ==
    /\ keywords = <<>>
    /\ max_pages = 0
    /\ max_products = 0
    /\ affiliate_id = Some(DefaultAffiliateId)
    /\ all_products = <<>>
    /\ kw = 0
    /\ page = 0
    /\ products = <<>>
    /\ next_page = FALSE
    /\ pc = "__init__"
    /\ product_data = None
    /\ fetches = <<>>
    /\ offered = 0
    /\ delays = 0
    /\ arg = None
    /\ ret = None
    /\ GatewayIdle

\* AmazonScraper(use_selenium=False)
NewStatic ==
    /\ pc = "__init__"
    /\ use_selenium' = FALSE
    /\ driver' = None
    /\ last_request_time' = 0
    /\ pc' = "try"
    /\ UNCHANGED <<keywords, max_pages, max_products, affiliate_id, all_products, kw,
                   page, products, next_page, product_data, fetches, offered, arg, ret,
                   delays,
                   now, calls>>

\* AmazonScraper(use_selenium=True): __init__ calls _init_selenium()
NewSelenium ==
    /\ pc = "__init__"
    /\ \E outcome \in InitOutcomes :
          /\ driver' = IF outcome = "Chrome raises" THEN None ELSE Some("chrome")
          /\ use_selenium' = (outcome = "ok")
          /\ calls' = calls \o init_calls(outcome)
    /\ last_request_time' = 0
    /\ pc' = "try"
    /\ UNCHANGED <<keywords, max_pages, max_products, affiliate_id, all_products, kw,
                   page, products, next_page, product_data, fetches, offered, arg, ret,
                   delays,
                   now>>

\* time passes between two calls
Tick ==
    /\ pc = "try"
    /\ now < MaxClock
    /\ now' = now + 1
    /\ UNCHANGED <<searchVars, affiliate_id, arg, ret, use_selenium, driver,
                   last_request_time, calls>>

\* a page fetch with use_selenium false: _make_request(), which calls _rate_limit()
MakeRequest ==
    /\ pc = "try"
    /\ ~use_selenium
    /\ Len(FetchCalls) < MaxCalls
    /\ \E sleep_time \in min_delay..max_delay, ok \in BOOLEAN :
          LET elapsed == now - last_request_time
              sent    == IF elapsed < min_delay THEN now + sleep_time ELSE now
          IN  /\ sent <= MaxClock
              /\ now' = sent
              /\ last_request_time' = sent
              /\ calls' = Append(calls, [op |-> "session.get", ok |-> ok, at |-> sent])
    /\ UNCHANGED <<searchVars, affiliate_id, arg, ret, use_selenium, driver>>

\* a page fetch with use_selenium true: _selenium_get_page()
SeleniumGetPage ==
    /\ pc = "try"
    /\ use_selenium
    /\ Len(FetchCalls) < MaxCalls
    /\ IF driver = None
       THEN UNCHANGED <<use_selenium, now, calls>>
       ELSE \E ok \in BOOLEAN :
              /\ calls' = Append(calls, [op |-> "driver.get", ok |-> ok, at |-> now])
              /\ now' = IF ok THEN now + settle_delay ELSE now
              /\ now' <= MaxClock
              /\ use_selenium' = IF ok THEN use_selenium ELSE use_selenium_after_failure
    /\ UNCHANGED <<searchVars, affiliate_id, arg, ret, driver, last_request_time>>

\* the try block of main() ends without an exception
TryDone ==
    /\ pc = "try"
    /\ pc' = "finally"
    /\ UNCHANGED <<keywords, max_pages, max_products, affiliate_id, all_products, kw,
                   page, products, next_page, product_data, fetches, offered, arg, ret,
                   delays,
                   gatewayVars>>

\* an exception leaves the try block of main()
TryRaised ==
    /\ pc = "try"
    /\ pc' = "finally_raised"
    /\ UNCHANGED <<keywords, max_pages, max_products, affiliate_id, all_products, kw,
                   page, products, next_page, product_data, fetches, offered, arg, ret,
                   delays,
                   gatewayVars>>

\* finally: scraper.close()
Close ==
    /\ pc \in {"finally", "finally_raised"}
    /\ calls' = IF quit_on_close(driver)
                THEN Append(calls, [op |-> "driver.quit", ok |-> TRUE, at |-> now])
                ELSE calls
    /\ pc' = IF pc = "finally" THEN "exit" ELSE "exit_raised"
    /\ UNCHANGED <<keywords, max_pages, max_products, affiliate_id, all_products, kw,
                   page, products, next_page, product_data, fetches, offered, arg, ret,
                   delays,
                   use_selenium, driver, last_request_time, now>>

GatewayNext ==
    \/ NewStatic
    \/ NewSelenium
    \/ Tick
    \/ MakeRequest
    \/ SeleniumGetPage
    \/ TryDone
    \/ TryRaised
    \/ Close

GatewaySpec == GatewayInit /\ [][GatewayNext]_vars

-----------------------------------------------------------------------------
(* Properties *)

\* C1, as stated: the result list never holds more than max_products records,
\* and when the pages fetched offer at least max_products containers that yield a
\* titled record, search_products returns exactly max_products records.
C1_CapAndFill ==
    /\ Len(all_products) <= max_products
    /\ (pc = "done" /\ offered >= max_products) => Len(all_products) = max_products

\* C1, amended: the same for every max_products >= 0 (with a negative max_products
\* the list stays empty, which is more than max_products).
C1_CapAndFillNonNegative ==
    max_products >= 0 =>
        /\ Len(all_products) <= max_products
        /\ (pc = "done" /\ offered >= max_products) => Len(all_products) = max_products

\* the search returned at the cap before it reached the second keyword
C1_Witness ==
    /\ pc = "done"
    /\ max_products = MaxProducts
    /\ Len(all_products) = max_products
    /\ Len(keywords) = 2
    /\ kw = 1

\* C2: after a failed fetch of page p < max_pages the keyword's loop goes on to
\* fetch page p + 1: the next fetch recorded is of page p + 1, until then the loop
\* stands at its head with the cap not reached or at the request of page p + 1, and
\* from the head it steps to that request; no later fetch is of page p again.
C2_FailedFetchContinues ==
    /\ [](\A i \in 1..Len(fetches) :
            (~fetches[i].ok /\ fetches[i].page < max_pages) =>
                /\ \A j \in (i + 1)..Len(fetches) : fetches[j].page > fetches[i].page
                /\ IF i < Len(fetches)
                   THEN fetches[i + 1].page = fetches[i].page + 1
                   ELSE \/ pc = "for_page" /\ page = fetches[i].page /\ ~CapReached
                        \/ pc = "request" /\ page = fetches[i].page + 1)
    /\ [][(pc = "for_page" /\ page < max_pages /\ ~CapReached) =>
              (pc' = "request" /\ page' = page + 1 /\ kw' = kw)]_vars

\* page 1 failed and page 2 of the same keyword was fetched after it
C2_Witness ==
    /\ Len(fetches) >= 2
    /\ ~fetches[1].ok
    /\ fetches[2].page = fetches[1].page + 1

\* C3: if page 1 of a keyword was fetched and shows no next-page link, it is the
\* only page fetched for that keyword, whatever max_pages is.
C3_NoNextStopsAfterPageOne ==
    (Len(fetches) >= 1 /\ fetches[1].page = 1 /\ fetches[1].ok /\ ~fetches[1].next) =>
        /\ Len(fetches) = 1
        /\ page = 1
        /\ pc # "request"

\* the search ended below the cap, with pages left, after a page 1 without the link
C3_Witness ==
    /\ pc = "done"
    /\ max_pages > 1
    /\ ~CapReached
    /\ Len(fetches) = 1
    /\ fetches[1].ok
    /\ ~fetches[1].next

\* C4: every record of the result list has a title that is present and not empty,
\* and the extraction of a container whose title is absent or empty leaves the
\* list as it was.
C4_RetainedRecordsAreTitled ==
    /\ [](\A i \in 1..Len(all_products) :
            all_products[i].title # None /\ Val(all_products[i].title) # <<>>)
    /\ [][(pc = "extract" /\ pc' = "extract" /\ products' # products
              /\ ~TruthyText(product_data_of(Head(products)).title))
            => all_products' = all_products]_vars

\* a container with an empty title, a link and a price was extracted and dropped
\* after a record had been retained
C4_Witness ==
    /\ pc = "extract"
    /\ product_data # None
    /\ Val(product_data) # None
    /\ Val(Val(product_data)).title = Some(<<>>)
    /\ Val(Val(product_data)).price # None
    /\ Val(Val(product_data)).url # None
    /\ all_products # <<>>

\* every field of a dictionary is None
AllAbsent(pd) ==
    /\ pd.title = None
    /\ pd.url = None
    /\ pd.price = None
    /\ pd.rating = None
    /\ pd.reviews_count = None
    /\ pd.image_url = None
    /\ pd.asin = None

\* C5, as stated: for the container in which no selector matches,
\* _extract_product_data returns no record.
C5_NoMatchNoRecord ==
    (ret # None /\ arg = NoMatch) => Val(ret) = None

\* C5, amended: for the container in which no selector matches,
\* _extract_product_data returns a dictionary whose fields, the title included,
\* are all None; it is search_products that does not retain it.
C5_NoMatchAllAbsent ==
    (ret # None /\ arg = NoMatch) =>
        /\ Val(ret) # None
        /\ AllAbsent(Val(Val(ret)))
        /\ ~Retained(Val(ret))

\* _extract_product_data was called on the container in which nothing matches
C5_Witness ==
    /\ ret # None
    /\ arg = NoMatch

\* C6: search_products never raises, and the extraction of a container on which
\* the try block raises leaves the result list as it was and goes on with the
\* remaining containers of the page.
C6_ExtractionFailureIsolated ==
    /\ [](pc # "raised")
    /\ [][(pc = "extract" /\ products # <<>> /\ ~CapReached
              /\ extraction_raises(Head(products)))
            => /\ all_products' = all_products
               /\ product_data' = Some(None)
               /\ products' = Tail(products)
               /\ pc' = "extract"]_vars

\* an extraction raised after a record had been retained, with containers left
C6_Witness ==
    /\ pc = "extract"
    /\ product_data = Some(None)
    /\ products # <<>>
    /\ all_products # <<>>

\* the number of pieces of a query string that are equal to piece
RECURSIVE CountPieces(_, _)
CountPieces(pieces, piece) ==
    IF pieces = <<>> THEN 0
    ELSE (IF Head(pieces) = piece THEN 1 ELSE 0) + CountPieces(Tail(pieces), piece)

TagParams(url, piece) == CountPieces(split(url.query, "&"), piece)

\* C7: for a non-empty URL and a non-empty tag T, the query string of the URL
\* returned by _add_affiliate_tag holds the parameter tag=T exactly once.
C7_TagExactlyOnce ==
    (ret # None /\ ~FalsyUrl(arg) /\ ~FalsyStr(affiliate_id)) =>
        /\ Val(ret) # None
        /\ TagParams(Val(Val(ret)), <<"tag", "=", Val(affiliate_id)>>) = 1

\* the input URL carried two tag parameters with a value other than T
C7_Witness ==
    /\ ret # None
    /\ ~FalsyStr(affiliate_id)
    /\ ~FalsyUrl(arg)
    /\ TagParams(Val(arg), <<"tag", "=", "old">>) = 2
    /\ TagParams(Val(Val(ret)), <<"tag", "=", Val(affiliate_id)>>) = 1

\* C8: when the URL is None or empty, or the tag is None or empty,
\* _add_affiliate_tag returns the URL it was given.
C8_AbsentInputUnchanged ==
    (ret # None /\ (FalsyUrl(arg) \/ FalsyStr(affiliate_id))) => Val(ret) = arg

\* without a tag, a URL whose query string holds a tag parameter was returned
C8_Witness ==
    /\ ret # None
    /\ FalsyStr(affiliate_id)
    /\ ~FalsyUrl(arg)
    /\ TagParams(Val(arg), <<"tag", "=", "old">>) = 1
    /\ Val(ret) = arg

\* C9: the price clean-up is idempotent: cleaning a cleaned text returns it, and a
\* text made of digits and points only is returned unchanged.
C9_NormalizeIdempotent ==
    ret # None =>
        /\ normalize_price(Val(ret)) = Val(ret)
        /\ (\A i \in 1..Len(arg) : IsPriceChar(arg[i])) => Val(ret) = arg

\* a text with a currency sign and a separator was cleaned to a shorter one
C9_Witness ==
    /\ ret # None
    /\ \E i \in 1..Len(arg) : arg[i] = "$"
    /\ \E i \in 1..Len(arg) : arg[i] = ","
    /\ Val(ret) # <<>>
    /\ Len(Val(ret)) < Len(arg)

\* C10: the rating of the dictionary _extract_product_data returns is None or a
\* value in [0.0, 5.0].
C10_RatingInRange ==
    (ret # None /\ Val(ret) # None /\ Val(Val(ret)).rating # None) =>
        Val(Val(Val(ret)).rating).num <= 5 * Pow10(Val(Val(Val(ret)).rating).scale)

\* the characters str.isalnum() accepts that occur in the hrefs: [A-Z0-9] and the
\* lower-case letters
Alphanumeric == AsinChars \cup {"b", "d", "g", "p"}

\* whether the path has a /dp/ marker followed by a segment of exactly ten
\* alphanumeric characters
DetailPath(path) ==
    \E i \in 1..(Len(path) - 1) :
        /\ path[i] = <<"d", "p">>
        /\ Len(path[i + 1]) = AsinLen
        /\ \A j \in 1..AsinLen : path[i + 1][j] \in Alphanumeric

\* whether the container has a title and its link leads to a product detail page
TitledDetailLink(product_element) ==
    LET link_elem == link_elem_of(product_element)
    IN  /\ title_elem_of(product_element) # None
        /\ TruthyText(Some(strip(Val(title_elem_of(product_element)).text)))
        /\ link_elem # None
        /\ Val(link_elem).href # None
        /\ ~Val(Val(link_elem).href).malformed
        /\ DetailPath(Val(Val(link_elem).href).path)

\* the segments that immediately follow a /dp/ marker in the path
SegmentsAfterDp(path) == {path[i + 1] : i \in {j \in 1..(Len(path) - 1) : path[j] = <<"d", "p">>}}

\* C11, as stated: for a container with a title and a link to a product detail page,
\* the asin of the dictionary is present, has exactly 10 alphanumeric characters and is
\* the segment that follows the /dp/ marker in the dictionary's url.
C11_AsinOfDetailLink ==
    (ret # None /\ TitledDetailLink(arg)) =>
        /\ Val(ret) # None
        /\ Val(Val(ret)).asin # None
        /\ Len(Val(Val(Val(ret)).asin)) = AsinLen
        /\ \A j \in 1..AsinLen : Val(Val(Val(ret)).asin)[j] \in Alphanumeric
        /\ Val(Val(ret)).url # None
        /\ Val(Val(Val(ret)).asin) \in SegmentsAfterDp(Val(Val(Val(ret)).url).path)

\* the first segment after a /dp/ marker that starts with ten characters of [A-Z0-9]
FirstAsinSegment(path) ==
    LET hits == {i \in 1..(Len(path) - 1) :
                    /\ path[i] = <<"d", "p">>
                    /\ Len(path[i + 1]) >= AsinLen
                    /\ \A j \in 1..AsinLen : path[i + 1][j] \in AsinChars}
    IN  IF hits = {} THEN None
        ELSE Some(path[(CHOOSE i \in hits : \A j \in hits : i <= j) + 1])

\* C11, amended: the asin of the dictionary is the first ten characters of the first
\* segment of the dictionary's url that follows a /dp/ marker and starts with ten
\* characters of [A-Z0-9] (upper-case letters and digits); it is absent when the url
\* is absent or has no such segment.
C11_AsinFromUrl ==
    (ret # None /\ Val(ret) # None) =>
        LET pd == Val(Val(ret))
            segment == IF pd.url = None THEN None
                       ELSE FirstAsinSegment(Val(pd.url).path)
        IN  IF segment = None THEN pd.asin = None
            ELSE /\ pd.asin # None
                 /\ Len(Val(pd.asin)) = AsinLen
                 /\ Val(pd.asin) = SubSeq(Val(segment), 1, AsinLen)

\* a titled container whose detail-page link has a segment longer than ten characters
\* after /dp/ was extracted
C11_Witness ==
    /\ ret # None
    /\ Val(ret) # None
    /\ TruthyText(Val(Val(ret)).title)
    /\ Val(Val(ret)).asin = Some(AsinA)
    /\ Val(Val(ret)).url # None
    /\ Val(Val(Val(ret)).url).path = << <<"d", "p">>, AsinA \o <<"X">> >>

\* a call on the browser that failed: at initialization or during a page fetch
RenderFailure(call) ==
    call.op \in {"webdriver.Chrome", "execute_script", "driver.get"} /\ ~call.ok

\* C12, as stated: after the first failure of the rendered backend, at initialization
\* or during a page fetch, every later fetch reports failure and no later call renders
\* a page.
C12_BackendDisabledAfterFailure ==
    \A i \in DOMAIN calls : \A j \in DOMAIN calls :
        (i < j /\ RenderFailure(calls[i]) /\ IsFetch(calls[j])) =>
            calls[j].op # "driver.get" /\ ~calls[j].ok

\* C12, amended: a failure at initialization switches use_selenium off for the rest of
\* the run, so that no later call renders a page and the fetches go to the static
\* backend; a failure during a page fetch changes nothing: use_selenium and the driver
\* are what they were, only the constructor assigns them.
C12_OnlyInitFailureDisables ==
    /\ [](\A i \in DOMAIN calls :
            (calls[i].op \in {"webdriver.Chrome", "execute_script"} /\ ~calls[i].ok) =>
                /\ ~use_selenium
                /\ \A j \in DOMAIN calls : i < j => calls[j].op # "driver.get")
    /\ [][pc # "__init__" => (use_selenium' = use_selenium /\ driver' = driver)]_vars

\* a rendered fetch failed and the next fetch rendered a page again
C12_Witness ==
    \E i \in DOMAIN calls : \E j \in DOMAIN calls :
        /\ i < j
        /\ calls[i].op = "driver.get"
        /\ ~calls[i].ok
        /\ calls[j].op = "driver.get"
        /\ use_selenium

\* whether the records can be attributed to positions of the keyword list that never
\* decrease along the result, each record carrying the keyword of its position
InKeywordOrder ==
    \E f \in [DOMAIN all_products -> DOMAIN keywords] :
        /\ \A a \in DOMAIN all_products : all_products[a].search_keyword = keywords[f[a]]
        /\ \A a \in DOMAIN all_products : \A b \in DOMAIN all_products :
              a < b => f[a] <= f[b]

\* C13: every record is appended with search_keyword equal to the keyword whose page
\* is being extracted, the records are in the order of the keyword list, and a
\* container that yields a titled record is appended whether or not an equal record
\* is in the result already.
C13_TaggedInKeywordOrder ==
    /\ []InKeywordOrder
    /\ [][all_products' # all_products =>
            /\ pc = "extract"
            /\ Len(all_products') = Len(all_products) + 1
            /\ SubSeq(all_products', 1, Len(all_products)) = all_products
            /\ all_products'[Len(all_products')].search_keyword = keywords[kw]]_vars
    /\ [][(/\ pc = "extract"
           /\ products # <<>>
           /\ Len(all_products) < max_products
           /\ _extract_product_data(Head(products)) # None
           /\ TruthyText(Val(_extract_product_data(Head(products))).title)) =>
            Len(all_products') = Len(all_products) + 1]_vars

\* the same product was retained under the first keyword and again under the second
C13_Witness ==
    /\ Len(keywords) = 2
    /\ keywords[1] # keywords[2]
    /\ Len(all_products) = 2
    /\ all_products[1].search_keyword = keywords[1]
    /\ all_products[2].search_keyword = keywords[2]
    /\ all_products[1].url = all_products[2].url
    /\ all_products[1].title = all_products[2].title

\* C14: two consecutive outbound page fetches of one scraper instance, through the
\* static or through the rendered backend, are never issued less than min_delay apart.
C14_MinimumSpacing ==
    \A i \in 1..(Len(FetchCalls) - 1) :
        FetchCalls[i + 1].at - FetchCalls[i].at >= min_delay

C16_EmptyPageEndsKeyword ==
    \A i \in DOMAIN fetches :
        (fetches[i].ok /\ fetches[i].empty) => i = Len(fetches)

\* C16, amended: a successfully fetched page without product containers adds no record
\* and is the last page fetched for its keyword only when it shows no next-page link or
\* is page max_pages; when it shows the link and its number is below max_pages, the
\* next page is fetched.
C16_EmptyPageFollowsNextLink ==
    /\ [](\A i \in DOMAIN fetches :
            (fetches[i].ok /\ fetches[i].empty) =>
                IF fetches[i].next /\ fetches[i].page < max_pages
                THEN IF i < Len(fetches)
                     THEN fetches[i + 1].page = fetches[i].page + 1
                     ELSE \/ pc \in {"extract", "check_next", "for_page"}
                             /\ page = fetches[i].page
                          \/ pc = "request" /\ page = fetches[i].page + 1
                ELSE i = Len(fetches))
    /\ [][(Len(fetches') = Len(fetches) + 1 /\ fetches'[Len(fetches')].empty) =>
            (products' = <<>> /\ all_products' = all_products)]_vars
    /\ [][(fetches # <<>> /\ fetches' = fetches /\ fetches[Len(fetches)].empty) =>
            all_products' = all_products]_vars

\* a page without containers showed the next-page link and the next page was fetched
C16_Witness ==
    \E i \in DOMAIN fetches :
        /\ fetches[i].ok
        /\ fetches[i].empty
        /\ fetches[i].next
        /\ i < Len(fetches)
        /\ fetches[i + 1].page = fetches[i].page + 1

\* whether the keyword's page loop is over
PagesOver == pc \in {"after_pages", "for_keyword", "done"}

DelayAfter(fetch) == IF fetch.ok /\ fetch.next THEN 1 ELSE 0

IsQuit(call) == call.op = "driver.quit"

IsRender(call) == call.op = "driver.get"

Exited == pc \in {"exit", "exit_raised"}

\* C18, as stated: the browser session is acquired only on the first rendered fetch, not
\* before it, and when the run is over, with or without an error, a session that was
\* acquired has been released exactly once.
C18_LazyAcquisition ==
    /\ driver # None => SelectSeq(calls, IsRender) # <<>>
    /\ Exited => Len(SelectSeq(calls, IsQuit)) = (IF driver # None THEN 1 ELSE 0)

\* C18, amended: the browser session is acquired by the constructor, when use_selenium
\* is requested and webdriver.Chrome() succeeds, before any fetch and whether or not a
\* rendered fetch follows; no fetch acquires it. It is not released before close(), and
\* when the run is over, with or without an error, it has been released exactly once.
C18_AcquiredAtConstruction ==
    /\ [][driver' # driver => pc = "__init__"]_vars
    /\ [](driver # None <=>
            \E i \in DOMAIN calls : calls[i].op = "webdriver.Chrome" /\ calls[i].ok)
    /\ [](~Exited => SelectSeq(calls, IsQuit) = <<>>)
    /\ [](Exited => Len(SelectSeq(calls, IsQuit)) = (IF driver # None THEN 1 ELSE 0))

\* a run that acquired the session, rendered no page and ended in an error has released
\* the session once
C18_Witness ==
    /\ pc = "exit_raised"
    /\ driver # None
    /\ SelectSeq(calls, IsRender) = <<>>
    /\ Len(SelectSeq(calls, IsQuit)) = 1

\* the elements the title rules match, in priority order: the six selectors, then the
\* first a.a-link-normal of the container
TitleMatches(product_element) ==
    [i \in 1..(Len(title_selectors) + 1) |->
        IF i <= Len(title_selectors) THEN product_element.select_one[title_selectors[i]]
        ELSE product_element.find["a.a-link-normal"]]

\* the trimmed text of the first element of matches that satisfies Wins, None if none does
FirstText(matches, Wins(_)) ==
    LET hits == {i \in DOMAIN matches :
                    IF matches[i] = None THEN FALSE ELSE Wins(Val(matches[i]).text)}
    IN  IF hits = {} THEN None
        ELSE Some(strip(Val(matches[CHOOSE i \in hits : \A j \in hits : i <= j]).text))

NonEmptyText(text) == strip(text) # <<>>

AnyText(text) == TRUE

\* C19, as stated: the title is the trimmed text of the first title rule, in priority
\* order, that yields non-empty text, and is absent only when no rule yields non-empty
\* text.
C19_FirstNonEmptyTitle ==
    (ret # None /\ Val(ret) # None) =>
        Val(Val(ret)).title = FirstText(TitleMatches(arg), NonEmptyText)

\* C19, amended: the title is the trimmed text of the first title rule, in priority
\* order, that matches an element, whatever the element's text: it is the empty string
\* when that text is empty or whitespace, also when a later rule would yield non-empty
\* text, and it is absent only when no rule matches an element.
C19_FirstMatchedTitle ==
    (ret # None /\ Val(ret) # None) =>
        Val(Val(ret)).title = FirstText(TitleMatches(arg), AnyText)

\* the first rule matched an element with whitespace-only text, a later rule one with
\* text: the title is the empty string
C19_Witness ==
    /\ ret # None
    /\ Val(ret) # None
    /\ Val(Val(ret)).title = Some(<<>>)
    /\ FirstText(TitleMatches(arg), NonEmptyText) = Some(<<"A">>)

IsPoint(c) == c = "."

\* the first price rule, in priority order, whose matched text is not empty once
\* trimmed and cleaned
FirstPriced(product_element) ==
    LET hits == {i \in DOMAIN price_selectors :
                    IF product_element.select_one[price_selectors[i]] = None THEN FALSE
                    ELSE SelectSeq(strip(Val(product_element.select_one[price_selectors[i]]).text),
                                   IsPriceChar) # <<>>}
    IN  IF hits = {} THEN 0 ELSE CHOOSE i \in hits : \A j \in hits : i <= j

\* C20: the price is absent or a non-empty string of digits with at most one decimal
\* point; a rule whose matched text is empty once stripped yields no price and the next
\* rule is tried, so the price comes from the first rule whose stripped text is not empty.
C20_PriceNumericString ==
    (ret # None /\ Val(ret) # None) =>
        LET price == Val(Val(ret)).price
        IN  /\ price # None =>
                /\ Val(price) # <<>>
                /\ \A i \in DOMAIN Val(price) : Val(price)[i] \in Digits \cup {"."}
                /\ Len(SelectSeq(Val(price), IsPoint)) <= 1
            /\ (price = None) <=> (FirstPriced(arg) = 0)

\* C21, as stated: when the dictionary has no url and the container or a descendant
\* carries the data-asin attribute, the asin is the value of that attribute.
C21_AsinFromDataAttribute ==
    (ret # None /\ Val(ret) # None /\ Val(Val(ret)).url = None /\ arg.data_asin # None) =>
        Val(Val(ret)).asin = arg.data_asin

\* C21, amended: when the dictionary has no url its asin is absent, whether or not the
\* container or a descendant carries the data-asin attribute.
C21_NoUrlNoAsin ==
    (ret # None /\ Val(ret) # None /\ Val(Val(ret)).url = None) =>
        Val(Val(ret)).asin = None

\* a titled container without a link that carries the data-asin attribute was
\* extracted: the asin is absent
C21_Witness ==
    /\ ret # None
    /\ Val(ret) # None
    /\ TruthyText(Val(Val(ret)).title)
    /\ Val(Val(ret)).url = None
    /\ arg.data_asin = Some(AsinB)
    /\ Val(Val(ret)).asin = None

\* the position of search_products as a tuple of naturals: whether it has not returned,
\* the keywords left, the phase within the keyword (2 in the page loop, 1 after it, 0
\* between keywords), the pages left, the stage within the page, the containers left
Rank ==
    <<IF pc = "done" THEN 0 ELSE 1,
      Len(keywords) - kw,
      CASE pc \in {"for_page", "request", "extract", "check_next"} -> 2
        [] pc = "after_pages" -> 1
        [] OTHER -> 0,
      Max(max_pages, 0) - page,
      CASE pc = "request" -> 3
        [] pc = "extract" -> 2
        [] pc = "check_next" -> 1
        [] OTHER -> 0,
      Len(products)>>

\* the lexicographic order on tuples of the same length
LexLess(a, b) ==
    \E i \in DOMAIN a : a[i] < b[i] /\ \A j \in 1..(i - 1) : a[j] = b[j]

\* whether the guard of a step holds at the position: the guards of the steps of one
\* position cover every case, and a fetch always yields some response
CanStep ==
    CASE pc = "for_keyword" -> kw < Len(keywords) \/ kw >= Len(keywords)
      [] pc = "for_page"    -> page + 1 <= max_pages \/ page + 1 > max_pages
      [] pc = "request"     -> \E html \in {None, Some([blank |-> TRUE, primary |-> <<>>,
                                                       fallback |-> <<>>, next |-> FALSE])} :
                                  html \in Responses
      [] pc = "extract"     -> (products = <<>> \/ CapReached) \/ (products # <<>> /\ ~CapReached)
      [] pc = "check_next"  -> NoNextPage \/ ~NoNextPage
      [] pc = "after_pages" -> CapReached \/ ~CapReached
      [] OTHER              -> FALSE

C23_PagesInOrder ==
    \A i \in DOMAIN fetches :
        /\ fetches[i].page = i
        /\ fetches[i].page <= max_pages
        /\ fetches[i].params.k = keywords[kw]
        /\ fetches[i].params.page = i
        /\ SubSeq(fetches[i].params.ref, 1, 6) = <<"s", "r", "_", "p", "g", "_">>
        /\ Len(fetches[i].params.ref) > 6
        /\ \A j \in 7..Len(fetches[i].params.ref) : fetches[i].params.ref[j] \in Digits
        /\ ToInt(SubSeq(fetches[i].params.ref, 7, Len(fetches[i].params.ref))) = i

\* page 2 was requested once, with the tag sr_pg_2, after the request of page 1 failed
C23_Witness ==
    /\ pc = "done"
    /\ Len(fetches) = 2
    /\ ~fetches[1].ok
    /\ fetches[2].page = 2
    /\ fetches[2].params.ref = <<"s", "r", "_", "p", "g", "_", "2">>

\* the common prefix test on lists
IsPrefix(s, t) == Len(s) <= Len(t) /\ SubSeq(t, 1, Len(s)) = s

\* C24: for the same keywords, max_pages and responses, the list search_products returns
\* under the cap n is a prefix of the list it returns under any larger cap m; it is that
\* list cut at n records (at none when n is not positive), so the cap only truncates
C24_SmallerCapIsPrefix ==
    ret # None =>
        /\ IsPrefix(Val(ret).n, Val(ret).m)
        /\ Len(Val(ret).n) = Min(Len(Val(ret).m), Max(arg.n, 0))

\* the smaller cap cut the search short in the first keyword's second page; the larger
\* cap went on to records of the second keyword
C24_Witness ==
    /\ ret # None
    /\ arg.n >= 1
    /\ Len(Val(ret).n) = arg.n
    /\ Len(Val(ret).m) > Len(Val(ret).n)
    /\ Val(ret).n[Len(Val(ret).n)].search_keyword = "laptop"
    /\ Val(ret).m[Len(Val(ret).m)].search_keyword = "mouse"
    /\ arg.script[1][1] = None

====
